---- MODULE Spec2Model ----
(***************************************************************************)
(* Back-Tester: layered configuration composition (SRC/config.py),         *)
(* configuration validation (SRC/validation.py), schema-driven record      *)
(* validation (SRC/schema_registry.py) and the run driver with its         *)
(* diagnostics report (SRC/runner.py).                                     *)
(***************************************************************************)
EXTENDS Integers, Sequences, FiniteSets, TLC

VARIABLES
  fs,        \* the four configuration source files, by position in `paths`
  sel,       \* the selector inputs [universe, content, execution]
  lpc,       \* load_config: "idle" | "call" | "returned" | "raised"
  lres,      \* load_config: [status, tree]
  vcfg,      \* validate_config: the tree under validation
  vpc,       \* validate_config: "idle" | "check" | "returned" | "raised"
  vstep,     \* validate_config: the check reached, in source order
  vexc,      \* validate_config: the exception raised, or "none"
  vdone,     \* validate_config: the checks evaluated so far
  rcall,     \* validate_record: [schema, profile, statement, record]
  rpc,       \* validate_record: "idle" | "call" | "returned" | "raised"
  rres,      \* validate_record: [status, missing]
  pc,          \* main: the statement reached
  schemaFile,  \* main: configs/schema/schema_main.yaml
  config,      \* main: the tree load_config returned
  registry,    \* main: the schema the registry holds
  bundle,      \* main: the fetched records, by statement
  profile,     \* main: the schema_profile value
  diagnostics, \* main: the report being built, or Unbound
  cursor,      \* main: [s, r], the statement and record the sweep is at
  should_abort,
  exc,         \* main: the exception in flight, or "none"
  raisedAt,    \* main: the statement that raised it
  files,       \* main: the files written under the run's output directory
  report,      \* main: the content of diagnostics.yaml, or Absent
  outcome,     \* main: "running", or how main ended
  log,         \* history: the calls main has made, in order
  validated    \* history: [statement, missing] per validate_record return

loadVars == <<fs, sel, lpc, lres>>
validateVars == <<vcfg, vpc, vstep, vexc, vdone>>
recordVars == <<rcall, rpc, rres>>
mainVars == <<pc, schemaFile, config, registry, bundle, profile, diagnostics,
              cursor, should_abort, exc, raisedAt, files, report, outcome,
              log, validated>>
vars == <<fs, sel, lpc, lres, vcfg, vpc, vstep, vexc, vdone, rcall, rpc, rres,
          pc, schemaFile, config, registry, bundle, profile, diagnostics,
          cursor, should_abort, exc, raisedAt, files, report, outcome,
          log, validated>>

(***************************************************************************)
(* YAML values.  A decoded document is a scalar, a list or a mapping;      *)
(* an empty document decodes to None.                                      *)
(***************************************************************************)
Str(v) == [kind |-> "scalar", t |-> "str", s |-> v]
Num(v) == [kind |-> "scalar", t |-> "int", s |-> v]
None == [kind |-> "none"]
\* A key a dict does not hold, a file not written.
Absent == [kind |-> "absent"]
List(items) == [kind |-> "list", l |-> items]
Map(f) == [kind |-> "map", m |-> f]
EmptyDict == [k \in {} |-> None]

IsDict(n) == n.kind = "map"
IsList(n) == n.kind = "list"
IsStr(n) == n.kind = "scalar" /\ n.t = "str"

\* Python truthiness of a decoded value (the `or {}` of _read_yaml).
Falsy(n) ==
  \/ n.kind = "none"
  \/ n.kind = "list" /\ n.l = <<>>
  \/ n.kind = "map" /\ DOMAIN n.m = {}
  \/ n.kind = "scalar" /\ n.t = "str" /\ n.s = ""
  \/ n.kind = "scalar" /\ n.t = "int" /\ n.s = "0"

\* d[k] = v on a dict held as a function.
Put(d, k, v) == [x \in DOMAIN d \cup {k} |-> IF x = k THEN v ELSE d[x]]

File(doc) == [exists |-> TRUE, doc |-> doc]
Missing == [exists |-> FALSE, doc |-> None]

Ok(tree) == [status |-> "ok", tree |-> tree]
Raise(e) == [status |-> e, tree |-> None]

(***************************************************************************)
(* SRC/config.py                                                        *)
(***************************************************************************)
NumSources == 4

_read_yaml(file) ==
  IF ~file.exists THEN Raise("FileNotFoundError")
  ELSE LET data == IF Falsy(file.doc) THEN Map(EmptyDict) ELSE file.doc
       IN IF ~IsDict(data) THEN Raise("ValueError") ELSE Ok(data)

RECURSIVE _deep_merge(_, _)
\* The accumulated value kept where both hold a key.
MergeBaseWins(base, override) ==
  [key \in DOMAIN base \cup DOMAIN override |->
     IF key \in DOMAIN base THEN base[key] ELSE override[key]]

\* The override taken whole, the accumulated keys dropped.
MergeOverrideOnly(base, override) == override

_deep_merge(base, override) ==
  [key \in DOMAIN base \cup DOMAIN override |->
     IF key \in DOMAIN override
     THEN IF key \in DOMAIN base /\ IsDict(base[key]) /\ IsDict(override[key])
          THEN Map(_deep_merge(base[key].m, override[key].m))
          ELSE override[key]
     ELSE base[key]]

\* The stem of each source file, in the order of `paths`.
Stems(s) == <<"Default", s.execution, s.content, s.universe>>

\* The loop of load_config over paths[i..]: read, then merge onto `merged`.
RECURSIVE MergeFrom(_, _, _)
MergeFrom(srcs, i, merged) ==
  IF i > NumSources THEN Ok(Map(merged))
  ELSE LET cfg == _read_yaml(srcs[i])
       IN IF cfg.status # "ok" THEN cfg
          ELSE MergeFrom(srcs, i + 1, _deep_merge(merged, cfg.tree.m))

\* merged.setdefault("_meta", {}) and the four item assignments.
AttachMeta(merged, s) ==
  LET m0 == IF "_meta" \in DOMAIN merged THEN merged
            ELSE Put(merged, "_meta", Map(EmptyDict))
      meta == m0["_meta"]
  IN IF ~IsDict(meta) THEN Raise("TypeError")
     ELSE LET m1 == Put(meta.m, "universe", Str(s.universe))
              m2 == Put(m1, "content", Str(s.content))
              m3 == Put(m2, "execution", Str(s.execution))
              m4 == Put(m3, "sources",
                        List([i \in 1..NumSources |-> Str(Stems(s)[i])]))
          IN Ok(Map(Put(m0, "_meta", Map(m4))))

load_config(srcs, s) ==
  LET merged == MergeFrom(srcs, 1, EmptyDict)
  IN IF merged.status # "ok" THEN merged ELSE AttachMeta(merged.tree.m, s)

(***************************************************************************)
(* SRC/validation.py                                                       *)
(***************************************************************************)
\* _require(cfg, "a.b.c"), the path given as its parts <<"a", "b", "c">>.
RECURSIVE _require(_, _)
_require(current, parts) ==
  IF parts = <<>> THEN Ok(current)
  ELSE IF ~IsDict(current) \/ Head(parts) \notin DOMAIN current.m
       THEN Raise("ConfigError")
       ELSE _require(current.m[Head(parts)], Tail(parts))

\* Python hashes scalars and None; a list or a dict is unhashable, and
\* `value not in {...}` on a set raises TypeError for it.
Hashable(n) == n.kind \in {"scalar", "none"}

\* value = _require(cfg, path); if value not in {allowed}: raise ConfigError
EnumCheck(cfg, parts, allowed) ==
  LET r == _require(cfg, parts)
  IN IF r.status # "ok" THEN "ConfigError"
     ELSE IF ~Hashable(r.tree) THEN "TypeError"
     ELSE IF r.tree \notin {Str(a) : a \in allowed} THEN "ConfigError"
     ELSE "pass"

\* str.strip() leaves nothing of a string of whitespace only.
BlankStrings == {"", " "}
StripIsEmpty(text) == text \in BlankStrings

NumChecks == 10

\* The i-th statement group of validate_config, in source order: "pass", or
\* the exception it raises.
CheckResult(i, cfg) ==
  CASE i = 1 -> IF _require(cfg, <<"execution">>).status = "ok"
                THEN "pass" ELSE "ConfigError"
    [] i = 2 -> IF _require(cfg, <<"universe">>).status = "ok"
                THEN "pass" ELSE "ConfigError"
    [] i = 3 -> IF _require(cfg, <<"content">>).status = "ok"
                THEN "pass" ELSE "ConfigError"
    [] i = 4 -> EnumCheck(cfg, <<"execution", "logging">>,
                          {"minimal", "maximal"})
    [] i = 5 -> EnumCheck(cfg, <<"execution", "data_mode">>,
                          {"dummy", "production"})
    [] i = 6 -> EnumCheck(cfg, <<"execution", "run_scale">>,
                          {"full", "smoke", "sample"})
    [] i = 7 -> EnumCheck(cfg, <<"execution", "error_policy">>,
                          {"fail_fast", "fail", "skip", "best_effort"})
    [] i = 8 -> LET r == _require(cfg, <<"universe", "symbols">>)
                IN IF r.status # "ok" THEN "ConfigError"
                   ELSE IF ~IsList(r.tree) \/ Len(r.tree.l) = 0
                        THEN "ConfigError" ELSE "pass"
    [] i = 9 -> LET symbols == _require(cfg, <<"universe", "symbols">>).tree.l
                    bad == {k \in 1..Len(symbols) :
                              ~IsStr(symbols[k]) \/ StripIsEmpty(symbols[k].s)}
                IN IF bad # {} THEN "ConfigError" ELSE "pass"
    [] OTHER -> EnumCheck(cfg, <<"content", "protocol">>,
                          {"fundamentals", "relative_valuations", "none"})

\* validate_config(cfg) as a whole: the checks from i on, stopping at the
\* first that raises.
RECURSIVE ChecksFrom(_, _)
ChecksFrom(i, cfg) ==
  IF i > NumChecks THEN "pass"
  ELSE IF CheckResult(i, cfg) # "pass" THEN CheckResult(i, cfg)
       ELSE ChecksFrom(i + 1, cfg)

validate_config(cfg) == ChecksFrom(1, cfg)

(***************************************************************************)
(* SRC/schema_registry.py                                                  *)
(***************************************************************************)
\* d.get(key, default) on a dict node; on any other value the attribute
\* lookup itself fails.
DictGet(d, key, default) == IF key \in DOMAIN d.m THEN d.m[key] ELSE default

\* Field names in Python's str order (code points), for sorted().
FieldOrder == <<"capex", "cash_and_equivalents", "cfo", "currency", "ebitda",
                "net_income", "period_end", "period_type", "revenue",
                "shares_outstanding", "source", "symbol", "total_assets",
                "total_debt">>
Pos(name) == CHOOSE i \in 1..Len(FieldOrder) : FieldOrder[i] = name
StrLess(a, b) == Pos(a) < Pos(b)

RECURSIVE sorted(_)
sorted(S) ==
  IF S = {} THEN <<>>
  ELSE LET least == CHOOSE x \in S : \A y \in S : ~StrLess(y, x)
       IN <<least>> \o sorted(S \ {least})

\* The names of a list of str items, as a set.
RECURSIVE SetOfNames(_)
SetOfNames(l) == IF l = <<>> THEN {} ELSE {Head(l).s} \cup SetOfNames(Tail(l))

Fields(names) == [status |-> "ok", names |-> names]
Fail(e) == [status |-> e, names |-> {}]

SchemaRegistry_load(file) ==
  IF ~file.exists THEN Raise("SchemaError")
  ELSE LET data == IF Falsy(file.doc) THEN Map(EmptyDict) ELSE file.doc
       IN IF ~IsDict(data) THEN Raise("SchemaError")
          ELSE IF "statements" \notin DOMAIN data.m
                  \/ "requirements" \notin DOMAIN data.m
               THEN Raise("SchemaError")
               ELSE Ok(data)

fields_for_statement(schema, statement) ==
  LET statements == schema.m["statements"]
  IN IF ~IsDict(statements) THEN Fail("AttributeError")
     ELSE LET st == DictGet(statements, statement, None)
          IN IF st = None THEN Fail("SchemaError")
             ELSE IF ~IsDict(st) THEN Fail("AttributeError")
             ELSE LET fields == DictGet(st, "fields", None)
                  IN IF ~IsDict(fields) THEN Fail("SchemaError")
                     ELSE Fields(DOMAIN fields.m)

required_fields(schema, prof, statement) ==
  LET requirements == schema.m["requirements"]
  IN IF ~IsDict(requirements) THEN Fail("AttributeError")
     ELSE LET reqs == DictGet(requirements, prof, None)
          IN IF reqs = None THEN Fail("SchemaError")
             ELSE IF ~IsDict(reqs) THEN Fail("AttributeError")
             ELSE LET common == DictGet(reqs, "common", List(<<>>))
                      specific == DictGet(reqs, statement, List(<<>>))
                  IN IF ~IsList(common) \/ ~IsList(specific)
                     THEN Fail("SchemaError")
                     ELSE LET required == SetOfNames(common.l)
                                            \cup SetOfNames(specific.l)
                              known == fields_for_statement(schema, statement)
                          IN IF known.status # "ok" THEN known
                             ELSE IF SetOfNames(specific.l) \ known.names # {}
                                  THEN Fail("SchemaError")
                                  ELSE Fields(required)

Missing_(seq) == [status |-> "ok", missing |-> seq]
RecordFail(e) == [status |-> e, missing |-> <<>>]

\* [k for k in required if k not in record], in the order of the list.
RECURSIVE NotIn(_, _)
NotIn(l, record) ==
  IF l = <<>> THEN <<>>
  ELSE (IF Head(l) \in DOMAIN record.m THEN <<>> ELSE <<Head(l)>>)
       \o NotIn(Tail(l), record)

\* The same without sorted(): the names in descending order.
RECURSIVE Reverse(_)
Reverse(l) == IF l = <<>> THEN <<>> ELSE Reverse(Tail(l)) \o <<Head(l)>>

ValidateRecordDescending(schema, prof, statement, record) ==
  IF ~IsDict(record) THEN RecordFail("SchemaError")
  ELSE LET required == required_fields(schema, prof, statement)
       IN IF required.status # "ok" THEN RecordFail(required.status)
          ELSE Missing_(NotIn(Reverse(sorted(required.names)), record))

validate_record(schema, prof, statement, record) ==
  IF ~IsDict(record) THEN RecordFail("SchemaError")
  ELSE LET required == required_fields(schema, prof, statement)
       IN IF required.status # "ok" THEN RecordFail(required.status)
          ELSE Missing_(NotIn(sorted(required.names), record))

(***************************************************************************)
(* SRC/providers/dummy_fundamentals.py                                     *)
(***************************************************************************)
NumPeriods == 3
Periods == <<"2025-12-31", "2024-12-31", "2023-12-31">>
\* The statements of the bundle, in the insertion order of `output`.
StatementOrder == <<"balance_sheet", "income_statement", "cash_flow_statement">>
CommonCols == {"symbol", "period_end", "period_type", "currency", "source"}

DummyRecord(statement, symbol, period) ==
  CASE statement = "balance_sheet" ->
         Map([symbol |-> Str(symbol), period_end |-> Str(period),
              period_type |-> Str("annual"), currency |-> Str("USD"),
              source |-> Str("dummy"),
              cash_and_equivalents |-> Num("1000.0"),
              total_assets |-> Num("5000.0"),
              total_liabilities |-> Num("3000.0"),
              total_equity |-> Num("2000.0"), total_debt |-> Num("1500.0")])
    [] statement = "income_statement" ->
         Map([symbol |-> Str(symbol), period_end |-> Str(period),
              period_type |-> Str("annual"), currency |-> Str("USD"),
              source |-> Str("dummy"),
              revenue |-> Num("2000.0"), operating_income |-> Num("500.0"),
              net_income |-> Num("300.0"),
              cost_of_goods_sold |-> Num("1200.0"),
              gross_profit |-> Num("800.0"),
              operating_expenses |-> Num("300.0")])
    [] OTHER ->
         Map([symbol |-> Str(symbol), period_end |-> Str(period),
              period_type |-> Str("annual"), currency |-> Str("USD"),
              source |-> Str("dummy"),
              cfo |-> Num("1100.0"), capex |-> Num("-400.0"),
              free_cash_flow |-> Num("700.0")])

\* fetch(symbols): per statement, one record per symbol and period,
\* symbols outermost.
fetch(symbols) ==
  [st \in {StatementOrder[i] : i \in 1..Len(StatementOrder)} |->
     [k \in 1..(Len(symbols) * NumPeriods) |->
        DummyRecord(st, symbols[((k - 1) \div NumPeriods) + 1].s,
                    Periods[((k - 1) % NumPeriods) + 1])]]

\* write_statement_csv: the columns are the common ones and the keys of the
\* first record; DictWriter raises ValueError on a row with any other key.
\* (The order of the columns plays no part in whether the call succeeds.)
write_statement_csv(records) ==
  IF records = <<>> THEN "ok"
  ELSE LET total_columns == CommonCols \cup DOMAIN records[1].m
       IN IF \E k \in 1..Len(records) :
                DOMAIN records[k].m \ total_columns # {}
          THEN "ValueError" ELSE "ok"

(***************************************************************************)
(* SRC/runner.py                                                           *)
(***************************************************************************)
Unbound == [kind |-> "unbound"]
StrictProfiles == {"debug_strict"}
\* The dict key a prof value stands for: only a str can equal a key of
\* the requirements mapping.
KeyOf(n) == IF IsStr(n) THEN n.s ELSE "<not a str>"

InitialDiagnostics(schema, prof) ==
  [schema_version |-> DictGet(schema, "version", None),
   profile |-> prof,
   provider |-> "DummyFundamentalsProvider",
   summary |-> [status |-> "success", total_records_checked |-> 0,
                missing_total |-> 0, errors |-> 0, warnings |-> 0],
   details |-> [st \in {"balance_sheet", "income_statement",
                        "cash_flow_statement"} |-> <<>>]]

\* Every finding an error, whatever the profile.
SeverityAlwaysError(strict) == "error"

\* Line 82.

Severity(strict) == IF strict THEN "error" ELSE "warning"

\* Lines 80-93: the finding of one record whose missing list is not empty.
AddFinding(d, statement, record, missing, strict) ==
  LET severity == Severity(strict)
      finding == [symbol |-> DictGet(record, "symbol", None),
                  period_end |-> DictGet(record, "period_end", None),
                  missing |-> missing, severity |-> severity]
      old == IF statement \in DOMAIN d.details THEN d.details[statement]
             ELSE <<>>
  IN [d EXCEPT
        !.summary.missing_total = @ + Len(missing),
        !.summary.errors = IF severity = "error" THEN @ + 1 ELSE @,
        !.summary.warnings = IF severity = "error" THEN @ ELSE @ + 1,
        !.details = Put(d.details, statement, Append(old, finding))]

\* Lines 95-101.
DecideStatus(summary) ==
  IF summary.errors > 0 THEN "failed"
  ELSE IF summary.warnings > 0 THEN "degraded" ELSE "success"

\* The abort never decided.
AbortNever(summary) == FALSE

DecideAbort(summary) == summary.errors > 0

(***************************************************************************)
(* Bounded configuration sources for the loader.                           *)
(***************************************************************************)
MaxLeaf == 2
LeafPool == <<Str("minimal"), List(<<Str("AAPL")>>), Str("maximal"),
              Num("7"), Str("verbose")>>
Leaves == {LeafPool[i] : i \in 1..MaxLeaf}
SubKeys == {"universe", "logging"}
\* Mappings of at most one entry over SubKeys.
SubMaps == {EmptyDict} \cup
           {[k \in {key} |-> v] : key \in SubKeys, v \in Leaves}
NestedValues == Leaves \cup {Map(f) : f \in SubMaps}
NestedKeys == {"_meta", "execution"}
TopKeys == NestedKeys \cup {"universe"}
\* An empty document, or a mapping of one top-level entry: _meta or execution
\* with a leaf or a nested mapping, or universe with a leaf.
SourceDocs ==
  {None}
  \cup {Map([k \in {key} |-> v]) : key \in NestedKeys, v \in NestedValues}
  \cup {Map([k \in {"universe"} |-> LeafPool[1]])}
Selectors == [universe |-> "US_Smoke", content |-> "fundamentals", execution |-> "prod"]

LoadIdle ==
  /\ fs = [i \in 1..NumSources |-> Missing]
  /\ sel = Selectors
  /\ lpc = "idle"
  /\ lres = Raise("none")

ValidateIdle ==
  /\ vcfg = None
  /\ vpc = "idle"
  /\ vstep = 0
  /\ vexc = "none"
  /\ vdone = {}

RecordIdle ==
  /\ rcall = [schema |-> None, profile |-> "", statement |-> "", record |-> None]
  /\ rpc = "idle"
  /\ rres = RecordFail("none")

MainIdle ==
  /\ pc = "idle"
  /\ schemaFile = Missing
  /\ config = None
  /\ registry = None
  /\ bundle = EmptyDict
  /\ profile = None
  /\ diagnostics = Unbound
  /\ cursor = [s |-> 0, r |-> 0]
  /\ should_abort = FALSE
  /\ exc = "none"
  /\ raisedAt = "none"
  /\ files = {}
  /\ report = Absent
  /\ outcome = "running"
  /\ log = <<>>
  /\ validated = <<>>

InitLoad ==
  /\ ValidateIdle
  /\ RecordIdle
  /\ MainIdle
  /\ fs \in [1..NumSources -> {File(d) : d \in SourceDocs}]
  /\ sel = Selectors
  /\ lpc = "call"
  /\ lres = Raise("none")

CallLoadConfig ==
  /\ lpc = "call"
  /\ lres' = load_config(fs, sel)
  /\ lpc' = IF lres'.status = "ok" THEN "returned" ELSE "raised"
  /\ UNCHANGED <<fs, sel, validateVars, recordVars, mainVars>>

NextLoad == CallLoadConfig

SpecLoad == InitLoad /\ [][NextLoad]_vars

(***************************************************************************)
(* Bounded configuration trees for the validator.                          *)
(***************************************************************************)
MaxSymbols == 2
\* The dict of the entries of f that are present.
DictOf(f) == [k \in {x \in DOMAIN f : f[x] # Absent} |-> f[k]]
Unhashable == List(<<Str("minimal")>>)
SymbolItems == {Str("AAPL"), Str(""), Str(" "), Num("7")}
SymbolLists == UNION {[1..n -> SymbolItems] : n \in 0..MaxSymbols}
ExecutionValues ==
  {Absent, Str("prod")}
  \cup {Map(DictOf([logging |-> a, data_mode |-> b, run_scale |-> c,
                    error_policy |-> d])) :
          a \in {Absent, Str("minimal"), Str("verbose"), Unhashable},
          b \in {Absent, Str("dummy"), Str("verbose")},
          c \in {Absent, Str("smoke"), Str("verbose")},
          d \in {Absent, Str("fail_fast"), Str("verbose")}}
UniverseValues ==
  {Absent, Str("US_Smoke")}
  \cup {Map(DictOf([symbols |-> x])) :
          x \in {Absent, Str("AAPL")} \cup {List(l) : l \in SymbolLists}}
ContentValues ==
  {Absent, Str("fundamentals")}
  \cup {Map(DictOf([protocol |-> x])) :
          x \in {Absent, Str("fundamentals"), Str("verbose"), Unhashable}}
ValidateConfigs ==
  {Map(DictOf([execution |-> e, universe |-> u, content |-> c])) :
     e \in ExecutionValues, u \in UniverseValues, c \in ContentValues}

InitValidate ==
  /\ LoadIdle
  /\ RecordIdle
  /\ MainIdle
  /\ vcfg \in ValidateConfigs
  /\ vpc = "check"
  /\ vstep = 1
  /\ vexc = "none"
  /\ vdone = {}

\* One check of validate_config: it raises, or control passes to the next
\* check, or past the last one the function returns.
ValidateStep ==
  /\ vpc = "check"
  /\ vdone' = vdone \cup {vstep}
  /\ LET r == CheckResult(vstep, vcfg)
     IN IF r # "pass"
        THEN vpc' = "raised" /\ vexc' = r /\ vstep' = vstep
        ELSE /\ vexc' = vexc
             /\ IF vstep = NumChecks
                THEN vpc' = "returned" /\ vstep' = vstep
                ELSE vpc' = "check" /\ vstep' = vstep + 1
  /\ UNCHANGED <<vcfg, loadVars, recordVars, mainVars>>

NextValidate == ValidateStep

SpecValidate == InitValidate /\ [][NextValidate]_vars

(***************************************************************************)
(* Bounded schemas and records for validate_record.                        *)
(***************************************************************************)
MaxReq == 2
\* Deliberately not in alphabetical order.
RecordFieldNames == {"symbol", "period_end", "total_assets"}
ReqLists == UNION {[1..n -> {Str(f) : f \in RecordFieldNames}] : n \in 0..MaxReq}
\* A requirement entry: absent, not a list, or a list of field names.
ReqEntries == {Absent, Str("symbol")} \cup {List(l) : l \in ReqLists}
\* A statement entry: absent, without `fields`, with `fields` that is not a
\* mapping, or declaring a set of fields.
StatementEntries ==
  {Absent, Map(EmptyDict), Map([k \in {"fields"} |-> List(<<>>)])}
  \cup {Map([k \in {"fields"} |-> Map([f \in D |-> None])]) :
          D \in SUBSET RecordFieldNames}
Records ==
  {List(<<>>)} \cup {Map([f \in D |-> Num("1")]) : D \in SUBSET RecordFieldNames}
RecordSchemas ==
  {Map([k \in {"statements", "requirements"} |->
          IF k = "statements"
          THEN Map(DictOf([balance_sheet |-> st]))
          ELSE Map([p \in {"debug_strict"} |->
                      Map(DictOf([common |-> c, balance_sheet |-> sp]))])]) :
     st \in StatementEntries, c \in ReqEntries, sp \in ReqEntries}

InitRecord ==
  /\ LoadIdle
  /\ ValidateIdle
  /\ MainIdle
  /\ rcall \in [schema : RecordSchemas, profile : {"debug_strict", "lenient"},
                statement : {"balance_sheet"}, record : Records]
  /\ rpc = "call"
  /\ rres = RecordFail("none")

CallValidateRecord ==
  /\ rpc = "call"
  /\ rres' = validate_record(rcall.schema, rcall.profile, rcall.statement,
                             rcall.record)
  /\ rpc' = IF rres'.status = "ok" THEN "returned" ELSE "raised"
  /\ UNCHANGED <<rcall, loadVars, validateVars, mainVars>>

NextRecord == CallValidateRecord

SpecRecord == InitRecord /\ [][NextRecord]_vars

(***************************************************************************)
(* main(): its inputs, and one action per statement group.                 *)
(***************************************************************************)
MaxRunSymbols == 2
RunSymbolPool == <<"AAPL", "MSFT", "GOOG", "AMZN">>
ExecutionDefaults(logging) ==
  Map([k \in {"execution"} |->
         Map(DictOf([logging |-> logging, data_mode |-> Str("dummy"),
                     run_scale |-> Str("smoke"),
                     error_policy |-> Str("fail_fast")]))])
ExecutionOverride(prof) ==
  Map([k \in {"execution"} |-> Map([j \in {"schema_profile"} |-> prof])])
ContentSource ==
  Map([k \in {"content"} |-> Map([j \in {"protocol"} |-> Str("fundamentals")])])
UniverseSource(n) ==
  Map([k \in {"universe"} |->
         Map([j \in {"symbols"} |->
                List([i \in 1..n |-> Str(RunSymbolPool[i])])])])
\* The four sources by position: execution/Default, execution/<execution>,
\* content/<content>, universes/<universe>.
RunSources ==
  {<<a, b, c, d>> :
     a \in {Missing, File(Str("oops")), File(ExecutionDefaults(Str("minimal"))),
            File(ExecutionDefaults(Str("verbose"))),
            File(ExecutionDefaults(Unhashable))},
     b \in {File(None), File(ExecutionOverride(Str("debug_strict"))),
            File(ExecutionOverride(Str("lenient"))),
            File(ExecutionOverride(Str("nosuch"))),
            File(ExecutionOverride(Unhashable))},
     c \in {File(ContentSource)},
     d \in {File(UniverseSource(n)) : n \in 1..MaxRunSymbols}}

AllStatements == {StatementOrder[i] : i \in 1..Len(StatementOrder)}
DeclaredFor(st) ==
  DOMAIN DummyRecord(st, "", "").m \cup {"ebitda", "shares_outstanding"}
StatementsDecl(known) ==
  Map([st \in known |->
         Map([k \in {"fields"} |-> Map([f \in DeclaredFor(st) |-> None])])])
RunRequirements ==
  { Map([k \in {"common"} |-> List(<<Str("symbol"), Str("period_end")>>)]),
    Map([k \in {"common"} |->
           List(<<Str("symbol"), Str("shares_outstanding")>>)]),
    Map([common |-> List(<<Str("symbol")>>),
         income_statement |-> List(<<Str("revenue"), Str("ebitda")>>),
         balance_sheet |-> List(<<Str("total_assets")>>)]),
    Map([common |-> List(<<Str("symbol")>>),
         balance_sheet |-> List(<<Str("shares_outstanding"), Str("ebitda")>>)]) }
RunSchemas ==
  {Map([version |-> Num("1"), statements |-> StatementsDecl(known),
        requirements |-> Map([p \in {"debug_strict", "lenient"} |-> reqs])]) :
     known \in {AllStatements, {"balance_sheet"}}, reqs \in RunRequirements}
  \cup {Map([version |-> Num("1"), statements |-> StatementsDecl(AllStatements),
             requirements |-> List(<<>>)])}
SchemaFiles ==
  {Missing, File(Str("oops")),
   File(Map([k \in {"statements"} |-> StatementsDecl(AllStatements)]))}
  \cup {File(d) : d \in RunSchemas}

Init ==
  /\ ValidateIdle
  /\ RecordIdle
  /\ fs \in RunSources
  /\ sel = Selectors
  /\ lpc = "idle"
  /\ lres = Raise("none")
  /\ pc = "load_config"
  /\ schemaFile \in SchemaFiles
  /\ config = None
  /\ registry = None
  /\ bundle = EmptyDict
  /\ profile = None
  /\ diagnostics = Unbound
  /\ cursor = [s |-> 0, r |-> 0]
  /\ should_abort = FALSE
  /\ exc = "none"
  /\ raisedAt = "none"
  /\ files = {}
  /\ report = Absent
  /\ outcome = "running"
  /\ log = <<>>
  /\ validated = <<>>

frame == <<fs, sel, lpc, lres, validateVars, recordVars, schemaFile>>

\* An exception leaves main from a statement outside the try block.
Propagate(e, at) ==
  /\ pc' = "done"
  /\ exc' = e
  /\ raisedAt' = at
  /\ outcome' = e

\* Line 26.
MainLoadConfig ==
  /\ pc = "load_config"
  /\ log' = Append(log, "load_config")
  /\ LET r == load_config(fs, sel)
     IN IF r.status = "ok"
        THEN /\ config' = r.tree
             /\ pc' = "validate_config"
             /\ UNCHANGED <<exc, raisedAt, outcome>>
        ELSE Propagate(r.status, "load_config") /\ UNCHANGED config
  /\ UNCHANGED <<frame, registry, bundle, profile, diagnostics, cursor,
                 should_abort, files, report, validated>>

\* Lines 29-33.
MainValidateConfig ==
  /\ pc = "validate_config"
  /\ log' = Append(log, "validate_config")
  /\ LET r == validate_config(config)
     IN IF r = "pass"
        THEN pc' = "create_context" /\ UNCHANGED <<exc, raisedAt, outcome>>
        ELSE IF r = "ConfigError"
             THEN /\ pc' = "done"
                  /\ exc' = "SystemExit"
                  /\ raisedAt' = "validate_config"
                  /\ outcome' = "SystemExit(2)"
             ELSE Propagate(r, "validate_config")
  /\ UNCHANGED <<frame, config, registry, bundle, profile, diagnostics, cursor,
                 should_abort, files, report, validated>>

\* Lines 35-36: RunContext.create makes the run's output directory.
MainCreateContext ==
  /\ pc = "create_context"
  /\ log' = Append(log, "mkdir")
  /\ pc' = "load_schema"
  /\ UNCHANGED <<frame, config, registry, bundle, profile, diagnostics, cursor,
                 should_abort, exc, raisedAt, files, report, outcome, validated>>

\* The same with config.yaml written before the schema is loaded.
MainLoadSchemaAfterConfigWrite ==
  /\ pc = "load_schema"
  /\ log' = Append(log, "load_schema")
  /\ files' = files \cup {"config.yaml"}
  /\ LET r == SchemaRegistry_load(schemaFile)
     IN IF r.status = "ok"
        THEN /\ registry' = r.tree
             /\ pc' = "fetch"
             /\ UNCHANGED <<exc, raisedAt, outcome>>
        ELSE Propagate(r.status, "load_schema") /\ UNCHANGED registry
  /\ UNCHANGED <<frame, config, bundle, profile, diagnostics, cursor,
                 should_abort, report, validated>>

\* Lines 39-40.
MainLoadSchema ==
  /\ pc = "load_schema"
  /\ log' = Append(log, "load_schema")
  /\ LET r == SchemaRegistry_load(schemaFile)
     IN IF r.status = "ok"
        THEN /\ registry' = r.tree
             /\ pc' = "fetch"
             /\ UNCHANGED <<exc, raisedAt, outcome>>
        ELSE Propagate(r.status, "load_schema") /\ UNCHANGED registry
  /\ UNCHANGED <<frame, config, bundle, profile, diagnostics, cursor,
                 should_abort, files, report, validated>>

\* Lines 42-44.
MainFetch ==
  /\ pc = "fetch"
  /\ log' = Append(log, "fetch")
  /\ bundle' = fetch(config.m["universe"].m["symbols"].l)
  /\ pc' = "write_config"
  /\ UNCHANGED <<frame, config, registry, profile, diagnostics, cursor,
                 should_abort, exc, raisedAt, files, report, outcome, validated>>

\* Lines 46-47.
MainWriteConfig ==
  /\ pc = "write_config"
  /\ log' = Append(log, "write:config.yaml")
  /\ files' = files \cup {"config.yaml"}
  /\ pc' = "enter_try"
  /\ UNCHANGED <<frame, config, registry, bundle, profile, diagnostics, cursor,
                 should_abort, exc, raisedAt, report, outcome, validated>>

\* The first statement at or after s that has a record, 0 if there is none.
RECURSIVE FirstWithRecords(_, _)
FirstWithRecords(b, i) ==
  IF i > Len(StatementOrder) THEN 0
  ELSE IF Len(b[StatementOrder[i]]) > 0 THEN i
       ELSE FirstWithRecords(b, i + 1)

\* Lines 49-74: should_abort, profile, is_strict, the empty report.
MainEnterTry ==
  /\ pc = "enter_try"
  /\ should_abort' = FALSE
  /\ profile' = DictGet(config.m["execution"], "schema_profile",
                        Str("debug_strict"))
  /\ IF ~Hashable(profile')
     THEN /\ exc' = "TypeError"
          /\ raisedAt' = "enter_try"
          /\ pc' = "finally"
          /\ UNCHANGED <<diagnostics, cursor, log>>
     ELSE /\ diagnostics' = InitialDiagnostics(registry, profile')
          /\ cursor' = [s |-> FirstWithRecords(bundle, 1), r |-> 1]
          /\ pc' = IF cursor'.s = 0 THEN "decide" ELSE "sweep"
          /\ log' = Append(log, "sweep")
          /\ UNCHANGED <<exc, raisedAt>>
  /\ UNCHANGED <<frame, config, registry, bundle, files, report, outcome,
                 validated>>

\* The position after record c.r of statement c.s.
Advance(b, c) ==
  IF c.r < Len(b[StatementOrder[c.s]]) THEN [s |-> c.s, r |-> c.r + 1]
  ELSE [s |-> FirstWithRecords(b, c.s + 1), r |-> 1]

\* Lines 77-93, one record: count it, validate it, record its finding.
MainSweepRecord ==
  /\ pc = "sweep"
  /\ log' = Append(log, "validate_record")
  /\ LET statement_name == StatementOrder[cursor.s]
         record == bundle[statement_name][cursor.r]
         is_strict == KeyOf(profile) \in StrictProfiles
         counted == [diagnostics EXCEPT !.summary.total_records_checked = @ + 1]
         r == validate_record(registry, KeyOf(profile), statement_name, record)
     IN IF r.status # "ok"
        THEN /\ diagnostics' = counted
             /\ exc' = r.status
             /\ raisedAt' = "sweep"
             /\ pc' = "finally"
             /\ UNCHANGED <<cursor, validated>>
        ELSE /\ diagnostics' =
                  IF r.missing # <<>>
                  THEN AddFinding(counted, statement_name, record, r.missing,
                                  is_strict)
                  ELSE counted
             /\ validated' = Append(validated, [statement |-> statement_name,
                                                missing |-> r.missing])
             /\ cursor' = Advance(bundle, cursor)
             /\ pc' = IF cursor'.s = 0 THEN "decide" ELSE "sweep"
             /\ UNCHANGED <<exc, raisedAt>>
  /\ UNCHANGED <<frame, config, registry, bundle, profile, should_abort, files,
                 report, outcome>>

\* Lines 95-103.
MainDecide ==
  /\ pc = "decide"
  /\ log' = Append(log, "decide")
  /\ diagnostics' = [diagnostics EXCEPT
                       !.summary.status = DecideStatus(diagnostics.summary)]
  /\ should_abort' = DecideAbort(diagnostics.summary)
  /\ IF should_abort'
     THEN pc' = "finally" /\ UNCHANGED cursor
     ELSE pc' = "write_csv" /\ cursor' = [s |-> 1, r |-> 0]
  /\ UNCHANGED <<frame, config, registry, bundle, profile, exc, raisedAt, files,
                 report, outcome, validated>>

\* Lines 104-106, one statement of the bundle.
MainWriteCsv ==
  /\ pc = "write_csv"
  /\ LET statement_name == StatementOrder[cursor.s]
         r == write_statement_csv(bundle[statement_name])
     IN /\ log' = Append(log, "write_statement_csv")
        /\ files' = files \cup {statement_name}
        /\ IF r # "ok"
           THEN /\ exc' = r
                /\ raisedAt' = "write_csv"
                /\ pc' = "finally"
                /\ UNCHANGED cursor
           ELSE /\ cursor' = [cursor EXCEPT !.s = @ + 1]
                /\ pc' = IF cursor.s = Len(StatementOrder) THEN "finally"
                         ELSE "write_csv"
                /\ UNCHANGED <<exc, raisedAt>>
  /\ UNCHANGED <<frame, config, registry, bundle, profile, diagnostics,
                 should_abort, report, outcome, validated>>

\* The report written only when no exception is in flight.
MainFinallyOnlyWithoutException ==
  /\ pc = "finally"
  /\ IF diagnostics = Unbound
     THEN /\ exc' = "UnboundLocalError"
          /\ raisedAt' = "finally"
          /\ UNCHANGED <<files, report, log>>
     ELSE /\ IF exc = "none"
             THEN /\ files' = files \cup {"diagnostics.yaml"}
                  /\ report' = diagnostics
                  /\ log' = Append(log, "write:diagnostics.yaml")
             ELSE UNCHANGED <<files, report, log>>
          /\ UNCHANGED <<exc, raisedAt>>
  /\ pc' = "exit"
  /\ UNCHANGED <<frame, config, registry, bundle, profile, diagnostics, cursor,
                 should_abort, outcome, validated>>

\* Lines 108-112: the finally block.  With `diagnostics` never assigned the
\* block itself raises, in place of the exception in flight.
MainFinally ==
  /\ pc = "finally"
  /\ IF diagnostics = Unbound
     THEN /\ exc' = "UnboundLocalError"
          /\ raisedAt' = "finally"
          /\ UNCHANGED <<files, report, log>>
     ELSE /\ files' = files \cup {"diagnostics.yaml"}
          /\ report' = diagnostics
          /\ log' = Append(log, "write:diagnostics.yaml")
          /\ UNCHANGED <<exc, raisedAt>>
  /\ pc' = "exit"
  /\ UNCHANGED <<frame, config, registry, bundle, profile, diagnostics, cursor,
                 should_abort, outcome, validated>>

\* Lines 114-121: the exception in flight propagates, or the abort is
\* signalled (SystemExit with a message: exit status 1), or main returns 0.
MainExit ==
  /\ pc = "exit"
  /\ pc' = "done"
  /\ outcome' = IF exc # "none" THEN exc
                ELSE IF should_abort THEN "SystemExit(1)" ELSE "return 0"
  /\ exc' = IF exc = "none" /\ should_abort THEN "SystemExit" ELSE exc
  /\ raisedAt' = IF exc = "none" /\ should_abort THEN "exit" ELSE raisedAt
  /\ UNCHANGED <<frame, config, registry, bundle, profile, diagnostics, cursor,
                 should_abort, files, report, log, validated>>

Next ==
  \/ MainLoadConfig
  \/ MainValidateConfig
  \/ MainCreateContext
  \/ MainLoadSchema
  \/ MainFetch
  \/ MainWriteConfig
  \/ MainEnterTry
  \/ MainSweepRecord
  \/ MainDecide
  \/ MainWriteCsv
  \/ MainFinally
  \/ MainExit

Spec == Init /\ [][Next]_vars

(***************************************************************************)
(* Paths into a tree, for stating the loader's properties.                 *)
(***************************************************************************)
RECURSIVE HasPath(_, _)
HasPath(n, p) ==
  IF p = <<>> THEN TRUE
  ELSE IsDict(n) /\ Head(p) \in DOMAIN n.m /\ HasPath(n.m[Head(p)], Tail(p))

RECURSIVE Get(_, _)
Get(n, p) == IF p = <<>> THEN n ELSE Get(n.m[Head(p)], Tail(p))

IsLeaf(n) == n.kind \in {"scalar", "list"}
ProperPrefixes(p) == {SubSeq(p, 1, k) : k \in 1..(Len(p) - 1)}

\* The mapping source i decodes to.
SrcTree(i) == _read_yaml(fs[i]).tree
Holds(i, p) == HasPath(SrcTree(i), p)
HoldsLeaf(i, p) == Holds(i, p) /\ IsLeaf(Get(SrcTree(i), p))
LeafSources(p) == {i \in 1..NumSources : HoldsLeaf(i, p)}
Latest(S) == CHOOSE i \in S : \A j \in S : j <= i
\* A source after i replaces what path p held: it holds a mapping at p, or a
\* value that is not a mapping at a proper prefix of p.
ReplacedAfter(i, p) ==
  \E j \in (i + 1)..NumSources :
    \/ Holds(j, p) /\ IsDict(Get(SrcTree(j), p))
    \/ \E q \in ProperPrefixes(p) : Holds(j, q) /\ ~IsDict(Get(SrcTree(j), q))

\* Key paths outside the reserved _meta block, to depth two.
MergePaths ==
  {<<k>> : k \in TopKeys \ {"_meta"}}
  \cup {<<k, j>> : k \in TopKeys \ {"_meta"}, j \in SubKeys}

(***************************************************************************)
(* Properties of load_config, checked under SpecLoad.                      *)
(***************************************************************************)
MetaEqualsSelectors(tree) ==
  /\ HasPath(tree, <<"_meta", "universe">>)
  /\ HasPath(tree, <<"_meta", "content">>)
  /\ HasPath(tree, <<"_meta", "execution">>)
  /\ Get(tree, <<"_meta", "universe">>) = Str(sel.universe)
  /\ Get(tree, <<"_meta", "content">>) = Str(sel.content)
  /\ Get(tree, <<"_meta", "execution">>) = Str(sel.execution)

AllSourcesAreMappings == \A i \in 1..NumSources : _read_yaml(fs[i]).status = "ok"

\* C4: for every content of the four sources, whatever value a source gives
\* the top-level key _meta, the call load_config(universe, content,
\* execution) returns a tree whose _meta.universe, _meta.content and
\* _meta.execution equal the three selector inputs.
C4_MetaImmunity ==
  (lpc # "call" /\ AllSourcesAreMappings) =>
     (lres.status = "ok" /\ MetaEqualsSelectors(lres.tree))

\* C5 as stated: every tree load_config returns contains the top-level keys
\* execution, universe, content and _meta.
C5_AlwaysFourKeys ==
  lpc = "returned" =>
     {"execution", "universe", "content", "_meta"} \subseteq DOMAIN lres.tree.m

\* C5 amended: every tree load_config returns contains the top-level key
\* _meta, and contains execution, universe or content exactly when at least
\* one of the four sources defines that key.
C5_MetaAlwaysOthersFromSources ==
  lpc = "returned" =>
     /\ "_meta" \in DOMAIN lres.tree.m
     /\ \A k \in {"execution", "universe", "content"} :
          (k \in DOMAIN lres.tree.m) <=>
             (\E i \in 1..NumSources : k \in DOMAIN SrcTree(i).m)

\* C5 witness: load_config has returned a tree that holds execution (a
\* source defines it) and lacks universe and content (no source does).
C5_Witness ==
  /\ lpc = "returned"
  /\ "execution" \in DOMAIN lres.tree.m
  /\ "universe" \notin DOMAIN lres.tree.m
  /\ "content" \notin DOMAIN lres.tree.m

\* C7 as stated: at any key path at which two or more sources hold a scalar
\* or list value, the composed tree holds the value of the latest of those
\* sources.
C7_LatestLeafAlwaysWins ==
  lpc = "returned" =>
     \A p \in MergePaths :
        Cardinality(LeafSources(p)) >= 2 =>
           /\ HasPath(lres.tree, p)
           /\ Get(lres.tree, p) = Get(SrcTree(Latest(LeafSources(p))), p)

\* C7 amended: at any key path outside _meta at which two or more sources
\* hold a scalar or list value, the composed tree holds the value of the
\* latest of those sources, provided no source after it holds a mapping at
\* that path or a value that is not a mapping at a proper prefix of it; and
\* mappings merge key by key: a scalar or list a source holds at a path that
\* no later source holds, below prefixes at which the later sources hold
\* only mappings, is preserved in the composed tree.
C7_MergePrecedence ==
  lpc = "returned" =>
     \A p \in MergePaths :
        /\ (/\ Cardinality(LeafSources(p)) >= 2
            /\ ~ReplacedAfter(Latest(LeafSources(p)), p))
           => /\ HasPath(lres.tree, p)
              /\ Get(lres.tree, p) = Get(SrcTree(Latest(LeafSources(p))), p)
        /\ \A i \in 1..NumSources :
              (/\ HoldsLeaf(i, p)
               /\ \A j \in (i + 1)..NumSources : ~Holds(j, p)
               /\ ~ReplacedAfter(i, p))
              => /\ HasPath(lres.tree, p)
                 /\ Get(lres.tree, p) = Get(SrcTree(i), p)

\* C7 witness: two sources hold different leaves at execution.logging, the
\* later one is not replaced, and an earlier source alone holds the sibling
\* execution.universe, which a later mapping at execution merges with.
C7_Witness ==
  /\ lpc = "returned"
  /\ Cardinality(LeafSources(<<"execution", "logging">>)) >= 2
  /\ ~ReplacedAfter(Latest(LeafSources(<<"execution", "logging">>)),
                    <<"execution", "logging">>)
  /\ \E i \in LeafSources(<<"execution", "logging">>) :
        Get(SrcTree(i), <<"execution", "logging">>)
          # Get(lres.tree, <<"execution", "logging">>)
  /\ \E i \in 1..(NumSources - 1) :
        /\ HoldsLeaf(i, <<"execution", "universe">>)
        /\ \A j \in (i + 1)..NumSources : ~Holds(j, <<"execution", "universe">>)
        /\ \E j \in (i + 1)..NumSources : Holds(j, <<"execution", "logging">>)
        /\ HasPath(lres.tree, <<"execution", "universe">>)

(***************************************************************************)
(* Properties of validate_config, checked under SpecValidate.              *)
(***************************************************************************)
NumClaimChecks == NumChecks - 1
HasEnum(cfg, p, allowed) ==
  HasPath(cfg, p) /\ Get(cfg, p) \in {Str(a) : a \in allowed}

\* The checks in the order the claim lists them; TRUE when cfg violates it.
ClaimViolated(c, cfg) ==
  CASE c = 1 -> ~HasPath(cfg, <<"execution">>)
    [] c = 2 -> ~HasPath(cfg, <<"universe">>)
    [] c = 3 -> ~HasPath(cfg, <<"content">>)
    [] c = 4 -> ~HasEnum(cfg, <<"execution", "logging">>, {"minimal", "maximal"})
    [] c = 5 -> ~HasEnum(cfg, <<"execution", "data_mode">>, {"dummy", "production"})
    [] c = 6 -> ~HasEnum(cfg, <<"execution", "run_scale">>,
                         {"full", "smoke", "sample"})
    [] c = 7 -> ~HasEnum(cfg, <<"execution", "error_policy">>,
                         {"fail_fast", "fail", "skip", "best_effort"})
    [] c = 8 -> ~(/\ HasPath(cfg, <<"universe", "symbols">>)
                  /\ IsList(Get(cfg, <<"universe", "symbols">>))
                  /\ LET l == Get(cfg, <<"universe", "symbols">>).l
                     IN /\ Len(l) > 0
                        /\ \A k \in 1..Len(l) :
                              IsStr(l[k]) /\ l[k].s \notin BlankStrings)
    [] OTHER -> ~HasEnum(cfg, <<"content", "protocol">>,
                         {"fundamentals", "relative_valuations", "none"})

\* The claim's check that a check of the source belongs to (the source
\* tests universe.symbols in two steps, 8 and 9).
ClaimCheckOf(i) == IF i <= 8 THEN i ELSE i - 1

\* C8: validate_config raises ConfigError for the first violated check of
\* the claim's sequence, having evaluated no later check, and returns
\* without error exactly when every check passes.
C8_FailFastConfigError ==
  /\ vpc = "raised" =>
        /\ vexc = "ConfigError"
        /\ ClaimViolated(ClaimCheckOf(vstep), vcfg)
        /\ \A c \in 1..(ClaimCheckOf(vstep) - 1) : ~ClaimViolated(c, vcfg)
        /\ vdone = 1..vstep
  /\ vpc = "returned" => \A c \in 1..NumClaimChecks : ~ClaimViolated(c, vcfg)
  /\ (vpc \in {"returned", "raised"}
        /\ \A c \in 1..NumClaimChecks : ~ClaimViolated(c, vcfg))
       => vpc = "returned"

\* What holds of the code: the same with TypeError allowed as the exception
\* of an enumerated field that holds a list or a mapping.
C8_FailFastAnyException ==
  /\ vpc = "raised" =>
        /\ vexc \in {"ConfigError", "TypeError"}
        /\ ClaimViolated(ClaimCheckOf(vstep), vcfg)
        /\ \A c \in 1..(ClaimCheckOf(vstep) - 1) : ~ClaimViolated(c, vcfg)
        /\ vdone = 1..vstep
  /\ vpc = "returned" => \A c \in 1..NumClaimChecks : ~ClaimViolated(c, vcfg)
  /\ (vpc \in {"returned", "raised"}
        /\ \A c \in 1..NumClaimChecks : ~ClaimViolated(c, vcfg))
       => vpc = "returned"

(***************************************************************************)
(* Properties of validate_record, checked under SpecRecord.                *)
(***************************************************************************)
CallRequirements == Get(rcall.schema, <<"requirements">>).m
CallStatements == Get(rcall.schema, <<"statements">>).m
ProfileKnown == rcall.profile \in DOMAIN CallRequirements
StatementKnown == rcall.statement \in DOMAIN CallStatements
\* The profile's list under `key`; a key the profile lacks is the empty list.
ReqListOf(key) ==
  IF key \in DOMAIN CallRequirements[rcall.profile].m
  THEN CallRequirements[rcall.profile].m[key] ELSE List(<<>>)
ListsAreLists == IsList(ReqListOf("common")) /\ IsList(ReqListOf(rcall.statement))
DeclaredFields ==
  IF HasPath(Map(CallStatements), <<rcall.statement, "fields">>)
     /\ IsDict(Get(Map(CallStatements), <<rcall.statement, "fields">>))
  THEN DOMAIN Get(Map(CallStatements), <<rcall.statement, "fields">>).m
  ELSE {}
FieldsDeclared ==
  /\ HasPath(Map(CallStatements), <<rcall.statement, "fields">>)
  /\ IsDict(Get(Map(CallStatements), <<rcall.statement, "fields">>))
SpecificAllDeclared ==
  \A k \in 1..Len(ReqListOf(rcall.statement).l) :
     ReqListOf(rcall.statement).l[k].s \in DeclaredFields
RequiredUnion ==
  {ReqListOf("common").l[k].s : k \in 1..Len(ReqListOf("common").l)}
  \cup {ReqListOf(rcall.statement).l[k].s :
          k \in 1..Len(ReqListOf(rcall.statement).l)}
StrictlyAscending(l) == \A i, j \in 1..Len(l) : i < j => StrLess(l[i], l[j])

\* C9: for a known profile, a known statement whose statement-specific
\* required fields are all declared on it, and a record that is a mapping,
\* validate_record returns exactly the names of (common union the
\* statement's list) that are not keys of the record, each once, in
\* ascending alphabetical order, and so the empty list exactly when the
\* record has every required field; it raises SchemaError when the record is
\* not a mapping, when the profile or the statement is unknown, or when a
\* statement-specific required field is not declared on the statement.
C9_ValidateRecord ==
  rpc # "call" =>
    /\ (/\ IsDict(rcall.record) /\ ProfileKnown /\ ListsAreLists
        /\ StatementKnown /\ FieldsDeclared /\ SpecificAllDeclared)
       => /\ rres.status = "ok"
          /\ {rres.missing[k] : k \in 1..Len(rres.missing)}
               = RequiredUnion \ DOMAIN rcall.record.m
          /\ StrictlyAscending(rres.missing)
          /\ (rres.missing = <<>>) <=> (RequiredUnion \subseteq DOMAIN rcall.record.m)
    /\ ~IsDict(rcall.record) => rres.status = "SchemaError"
    /\ ~ProfileKnown => rres.status = "SchemaError"
    /\ ~StatementKnown => rres.status = "SchemaError"
    /\ (ProfileKnown /\ ListsAreLists /\ ~SpecificAllDeclared)
         => rres.status = "SchemaError"

\* C9 witness: validate_record has returned two missing names; the profile
\* lists "symbol" before "period_end" in `common`, and the record lacks both.
C9_Witness ==
  /\ rpc = "returned"
  /\ Len(rres.missing) = 2
  /\ ReqListOf("common") = List(<<Str("symbol"), Str("period_end")>>)
  /\ "total_assets" \in DOMAIN rcall.record.m
  /\ Len(ReqListOf(rcall.statement).l) > 0

(***************************************************************************)
(* Properties of main, checked under Spec.                                 *)
(***************************************************************************)
InLog(e) == \E i \in 1..Len(log) : log[i] = e
CountLog(e) == Cardinality({i \in 1..Len(log) : log[i] = e})
Ended == outcome # "running"
CsvWritten == files \cap AllStatements

\* C1: in every diagnostics report written to diagnostics.yaml, on every exit
\* path on which the write happens, summary.status is 'failed' if
\* summary.errors > 0, otherwise 'degraded' if summary.warnings > 0,
\* otherwise 'success'.
C1_StatusDerivedFromCounters ==
  report # Absent =>
     report.summary.status =
        (IF report.summary.errors > 0 THEN "failed"
         ELSE IF report.summary.warnings > 0 THEN "degraded" ELSE "success")

\* C2: once main has entered the validation sweep, the diagnostics report is
\* in the output directory whenever main has ended, however it ended
\* (abort, an exception of the sweep or of the CSV writing, success): the
\* write comes before the signal reaches the caller.
C2_DiagnosticsAlwaysWritten ==
  (InLog("sweep") /\ Ended) =>
     /\ "diagnostics.yaml" \in files
     /\ report # Absent
     /\ InLog("write:diagnostics.yaml")

\* C2 witness: a SchemaError raised by validate_record during the sweep has
\* reached the caller, and diagnostics.yaml is written.
C2_Witness ==
  /\ outcome = "SchemaError"
  /\ raisedAt = "sweep"
  /\ Len(validated) > 0
  /\ "diagnostics.yaml" \in files

\* C3: a statement CSV is written only after a completed sweep that found
\* no error; a run whose completed sweep found errors never calls
\* write_statement_csv, still writes the report, and ends with a non-zero
\* status; a run whose completed sweep found none writes a CSV for every
\* statement of the bundle.
C3_CsvOnlyWithoutErrors ==
  /\ (CsvWritten # {} \/ InLog("write_statement_csv")) =>
        (InLog("decide") /\ diagnostics.summary.errors = 0)
  /\ (Ended /\ InLog("decide") /\ diagnostics.summary.errors > 0) =>
        /\ ~InLog("write_statement_csv")
        /\ CsvWritten = {}
        /\ "diagnostics.yaml" \in files
        /\ outcome = "SystemExit(1)"
  /\ (Ended /\ InLog("decide") /\ diagnostics.summary.errors = 0) =>
        /\ CsvWritten = DOMAIN bundle
        /\ CountLog("write_statement_csv") = Cardinality(DOMAIN bundle)

\* C3 witness: a run ended by the abort after a completed sweep with errors:
\* no CSV, the report written.
C3_Witness ==
  /\ outcome = "SystemExit(1)"
  /\ InLog("decide")
  /\ diagnostics.summary.errors > 0
  /\ CsvWritten = {}
  /\ report # Absent

ConfigLoadError ==
  Ended /\ raisedAt = "load_config" /\ outcome \in {"FileNotFoundError", "ValueError"}
SchemaLoadError == Ended /\ raisedAt = "load_schema"

\* C6 as stated: when a load error (a missing or malformed configuration
\* source or schema file) ends the run, neither validate_config nor any
\* validate_record has been executed and no run artifact has been written.
C6_LoadErrorBeforeAnyValidation ==
  (ConfigLoadError \/ SchemaLoadError) =>
     /\ ~InLog("validate_config")
     /\ ~InLog("validate_record")
     /\ files = {}

\* C6 amended: a configuration-source load error ends the run before
\* validate_config, any validate_record and any artifact; a schema-file load
\* error ends it after validate_config has run and passed (and the output
\* directory was made), before any validate_record call and before any
\* artifact file is written.
C6_LoadErrorOrder ==
  /\ ConfigLoadError =>
        /\ ~InLog("validate_config")
        /\ ~InLog("validate_record")
        /\ ~InLog("mkdir")
        /\ files = {}
  /\ SchemaLoadError =>
        /\ outcome = "SchemaError"
        /\ InLog("validate_config")
        /\ validate_config(config) = "pass"
        /\ ~InLog("validate_record")
        /\ files = {}

\* C6 witness: the schema file failed to load: validate_config has run,
\* nothing is written.
C6_Witness ==
  /\ SchemaLoadError
  /\ outcome = "SchemaError"
  /\ InLog("validate_config")
  /\ files = {}

RECURSIVE SumMissing(_)
SumMissing(v) == IF v = <<>> THEN 0 ELSE Len(Head(v).missing) + SumMissing(Tail(v))

\* The missing lists validate_record returned for a statement, the empty
\* ones left out, in order.
RECURSIVE FindingsOf(_, _)
FindingsOf(v, st) ==
  IF v = <<>> THEN <<>>
  ELSE (IF Head(v).statement = st /\ Head(v).missing # <<>>
        THEN <<Head(v).missing>> ELSE <<>>) \o FindingsOf(Tail(v), st)

\* C10: after the sweep has processed any prefix of the records, the
\* counters agree with the records processed: total_records_checked counts
\* the records validated, errors + warnings counts the records with a
\* non-empty missing list and the findings of the detail lists,
\* missing_total is the sum of the lengths of those lists, and the severity
\* is one per run: all errors under a strict profile, all warnings under any
\* other.
C10_CountersConsistent ==
  diagnostics # Unbound =>
    LET sm == diagnostics.summary
        det == diagnostics.details
        withMissing == {i \in 1..Len(validated) : validated[i].missing # <<>>}
        strict == profile = Str("debug_strict")
    IN /\ sm.total_records_checked = CountLog("validate_record")
       /\ raisedAt # "sweep" => sm.total_records_checked = Len(validated)
       /\ sm.errors + sm.warnings = Cardinality(withMissing)
       /\ \A st \in DOMAIN det :
             /\ Len(det[st]) = Len(FindingsOf(validated, st))
             /\ \A k \in 1..Len(det[st]) :
                   /\ det[st][k].missing = FindingsOf(validated, st)[k]
                   /\ det[st][k].severity = IF strict THEN "error" ELSE "warning"
       /\ sm.missing_total = SumMissing(validated)
       /\ strict => sm.warnings = 0
       /\ ~strict => sm.errors = 0

\* C10 witness: mid-sweep under a profile that is not strict, two records
\* each lacking two fields were found, and a record with nothing missing was
\* validated after them.
C10_Witness ==
  /\ pc = "sweep"
  /\ profile = Str("lenient")
  /\ diagnostics.summary.warnings >= 2
  /\ diagnostics.summary.missing_total = 2 * diagnostics.summary.warnings
  /\ diagnostics.summary.total_records_checked > diagnostics.summary.warnings

====
